---------------------------- MODULE Spec2Model ----------------------------
(***************************************************************************)
(* Model of the medical-records Telegram bot of src/main.py: the          *)
(* ConversationHandler state machine registered in MedicalBot.run, the    *)
(* handlers it dispatches to, the per-user user_data dictionaries, the    *)
(* two SQLite tables, and the prescription text parser of                 *)
(* MedicalBot.confirm_prescription.                                        *)
(*                                                                         *)
(* A text is a sequence of one-character strings; a character outside     *)
(* ASCII is written as its code point ("U+1F464").                         *)
(***************************************************************************)
EXTENDS Integers, Sequences, FiniteSets, TLC

(***************************************************************************)
(* Python string and integer operations used by the handlers.             *)
(***************************************************************************)

\* Characters str.strip() and int() treat as whitespace.
WHITESPACE == {" ", "\n", "\t", "\r"}

DIGITS == <<"0", "1", "2", "3", "4", "5", "6", "7", "8", "9">>

UPPER ==
    <<"A", "B", "C", "D", "E", "F", "G", "H", "I", "J", "K", "L", "M",
      "N", "O", "P", "Q", "R", "S", "T", "U", "V", "W", "X", "Y", "Z">>

LOWER ==
    <<"a", "b", "c", "d", "e", "f", "g", "h", "i", "j", "k", "l", "m",
      "n", "o", "p", "q", "r", "s", "t", "u", "v", "w", "x", "y", "z">>

IsDigit(c) == \E i \in 1..Len(DIGITS) : DIGITS[i] = c

DigitVal(c) == (CHOOSE i \in 1..Len(DIGITS) : DIGITS[i] = c) - 1

\* str.lower() on one character.
LowerChar(c) ==
    IF \E i \in 1..Len(UPPER) : UPPER[i] = c
    THEN LOWER[CHOOSE i \in 1..Len(UPPER) : UPPER[i] = c]
    ELSE c

\* str.lower()
PyLower(s) == [i \in 1..Len(s) |-> LowerChar(s[i])]

\* str.strip(): drops the leading and the trailing whitespace.
PyStrip(s) ==
    LET keep == {i \in 1..Len(s) : s[i] \notin WHITESPACE}
    IN  IF keep = {} THEN <<>>
        ELSE SubSeq(s, CHOOSE i \in keep : \A j \in keep : i <= j,
                       CHOOSE i \in keep : \A j \in keep : i >= j)

\* str.find(sep) + 1: the first position where sep occurs in s, 0 if none.
PyFind(s, sep) ==
    LET at == {i \in 1..(Len(s) - Len(sep) + 1) : SubSeq(s, i, i + Len(sep) - 1) = sep}
    IN  IF at = {} THEN 0 ELSE CHOOSE i \in at : \A j \in at : i <= j

\* sep in s
PyContains(s, sep) == PyFind(s, sep) # 0

\* str.split(sep): the pieces between the non-overlapping occurrences of sep,
\* scanned left to right.
RECURSIVE PySplit(_, _)
PySplit(s, sep) ==
    LET i == PyFind(s, sep)
    IN  IF i = 0 THEN <<s>>
        ELSE <<SubSeq(s, 1, i - 1)>> \o PySplit(SubSeq(s, i + Len(sep), Len(s)), sep)

\* The digits of a decimal literal, its single underscores dropped.
RECURSIVE DecimalValue(_)
DecimalValue(s) ==
    IF s = <<>> THEN 0
    ELSE IF s[Len(s)] = "_" THEN DecimalValue(SubSeq(s, 1, Len(s) - 1))
    ELSE 10 * DecimalValue(SubSeq(s, 1, Len(s) - 1)) + DigitVal(s[Len(s)])

\* int(s): surrounding whitespace stripped, an optional sign, then digits with
\* single underscores allowed between them; anything else raises ValueError.
PyInt(s) ==
    LET t    == PyStrip(s)
        sgn  == t # <<>> /\ t[1] \in {"+", "-"}
        body == IF sgn THEN SubSeq(t, 2, Len(t)) ELSE t
        wellFormed ==
            /\ body # <<>>
            /\ \A i \in 1..Len(body) : IsDigit(body[i]) \/ body[i] = "_"
            /\ IsDigit(body[1]) /\ IsDigit(body[Len(body)])
            /\ \A i \in 1..(Len(body) - 1) : ~(body[i] = "_" /\ body[i + 1] = "_")
    IN  IF ~wellFormed THEN [ok |-> FALSE, val |-> 0]
        ELSE [ok |-> TRUE,
              val |-> IF sgn /\ t[1] = "-" THEN 0 - DecimalValue(body)
                      ELSE DecimalValue(body)]

\* str(n) of a natural number.
RECURSIVE NatToStr(_)
NatToStr(n) ==
    IF n < 10 THEN <<DIGITS[n + 1]>>
    ELSE NatToStr(n \div 10) \o <<DIGITS[(n % 10) + 1]>>

\* str(n), as the f-strings format an integer.
PyStr(n) == IF n < 0 THEN <<"-">> \o NatToStr(0 - n) ELSE NatToStr(n)

(***************************************************************************)
(* Literal texts of the source.                                            *)
(***************************************************************************)

\* src/main.py:60 (menu label; entry-point regex at line 583)
BTN_ADD_PATIENT ==
    <<"U+1F464", " ", "A", "d", "d", " ", "N", "e", "w", " ", "P", "a", "t", "i", "e", "n",
      "t">>

\* src/main.py:60
BTN_VIEW_PATIENTS ==
    <<"U+1F4CB", " ", "V", "i", "e", "w", " ", "P", "a", "t", "i", "e", "n", "t", "s">>

\* src/main.py:61 (entry-point regex at line 584)
BTN_CREATE_PRESCRIPTION ==
    <<"U+1F48A", " ", "C", "r", "e", "a", "t", "e", " ", "P", "r", "e", "s", "c", "r", "i",
      "p", "t", "i", "o", "n">>

\* src/main.py:61
BTN_VIEW_PRESCRIPTIONS ==
    <<"U+1F4CA", " ", "V", "i", "e", "w", " ", "P", "r", "e", "s", "c", "r", "i", "p", "t",
      "i", "o", "n", "s">>

\* src/main.py:62
BTN_SEARCH_PATIENT ==
    <<"U+1F50D", " ", "S", "e", "a", "r", "c", "h", " ", "P", "a", "t", "i", "e", "n", "t">>

\* src/main.py:62
BTN_STATISTICS ==
    <<"U+1F4C8", " ", "S", "t", "a", "t", "i", "s", "t", "i", "c", "s">>

\* src/main.py:147
BTN_MAIN_MENU ==
    <<"U+1F3E0", " ", "M", "a", "i", "n", " ", "M", "e", "n", "u">>

\* src/main.py:375
BTN_NEW_PRESCRIPTION ==
    <<"U+1F48A", " ", "N", "e", "w", " ", "P", "r", "e", "s", "c", "r", "i", "p", "t", "i",
      "o", "n">>

\* src/main.py:178
BTN_SELECT_CANCEL ==
    <<"U+1F6AB", " ", "C", "a", "n", "c", "e", "l">>

\* src/main.py:325
BTN_CONFIRM_SAVE ==
    <<"U+2705", " ", "C", "o", "n", "f", "i", "r", "m", " ", "&", " ", "S", "a", "v", "e">>

\* src/main.py:325
BTN_REVIEW_CANCEL ==
    <<"U+274C", " ", "C", "a", "n", "c", "e", "l">>

\* src/main.py:325
BTN_EDIT ==
    <<"U+270F", "U+FE0F", " ", "E", "d", "i", "t">>

\* src/main.py:196
ID_MARKER ==
    <<"I", "D", ":", " ">>

\* src/main.py:246
HPYLORI_KEYWORD ==
    <<"h", ".", "p", "y", "l", "o", "r", "i">>

\* src/main.py:176
LABEL_AGE_OPEN ==
    <<" ", "(", "A", "g", "e", ":", " ">>

\* src/main.py:176
LABEL_ID_OPEN ==
    <<")", " ", "-", " ", "I", "D", ":", " ">>

TEMPLATE_1_NAME ==
    <<"D", "o", "x", "y", "c", "y", "c", "l", "i", "n", "e", " ", "1", "0", "0", "m", "g">>

TEMPLATE_1_DOSAGE ==
    <<"1", "0", "0", "m", "g">>

TEMPLATE_1_QUANTITY ==
    <<"2", "8", " ", "t", "a", "b", "l", "e", "t", "s">>

TEMPLATE_1_INSTRUCTIONS ==
    <<"T", "a", "k", "e", " ", "1", " ", "t", "a", "b", "l", "e", "t", " ", "t", "w", "i",
      "c", "e", " ", "d", "a", "i", "l", "y", " ", "(", "m", "o", "r", "n", "i", "n", "g",
      " ", "a", "n", "d", " ", "e", "v", "e", "n", "i", "n", "g", ")", " ", "a", "f", "t",
      "e", "r", " ", "m", "e", "a", "l", "s", " ", "f", "o", "r", " ", "1", "4", " ", "d",
      "a", "y", "s">>

TEMPLATE_2_NAME ==
    <<"M", "e", "t", "r", "o", "n", "i", "d", "a", "z", "o", "l", "e", " ", "5", "0", "0",
      "m", "g">>

TEMPLATE_2_DOSAGE ==
    <<"5", "0", "0", "m", "g">>

TEMPLATE_2_QUANTITY ==
    <<"4", "2", " ", "t", "a", "b", "l", "e", "t", "s">>

TEMPLATE_2_INSTRUCTIONS ==
    <<"T", "a", "k", "e", " ", "1", " ", "t", "a", "b", "l", "e", "t", " ", "t", "h", "r",
      "e", "e", " ", "t", "i", "m", "e", "s", " ", "d", "a", "i", "l", "y", " ", "(", "m",
      "o", "r", "n", "i", "n", "g", ",", " ", "l", "u", "n", "c", "h", ",", " ", "e", "v",
      "e", "n", "i", "n", "g", ")", " ", "a", "f", "t", "e", "r", " ", "m", "e", "a", "l",
      "s", " ", "f", "o", "r", " ", "1", "4", " ", "d", "a", "y", "s">>

TEMPLATE_3_NAME ==
    <<"E", "s", "o", "m", "e", "p", "r", "a", "z", "o", "l", "e", " ", "4", "0", "m", "g">>

TEMPLATE_3_DOSAGE ==
    <<"4", "0", "m", "g">>

TEMPLATE_3_QUANTITY ==
    <<"2", "8", " ", "t", "a", "b", "l", "e", "t", "s">>

TEMPLATE_3_INSTRUCTIONS ==
    <<"T", "a", "k", "e", " ", "1", " ", "t", "a", "b", "l", "e", "t", " ", "t", "w", "i",
      "c", "e", " ", "d", "a", "i", "l", "y", " ", "(", "m", "o", "r", "n", "i", "n", "g",
      " ", "a", "n", "d", " ", "e", "v", "e", "n", "i", "n", "g", ")", " ", "b", "e", "f",
      "o", "r", "e", " ", "m", "e", "a", "l", "s", " ", "f", "o", "r", " ", "1", "4", " ",
      "d", "a", "y", "s">>

TEMPLATE_4_NAME ==
    <<"B", "i", "s", "m", "u", "t", "h", " ", "5", "2", "5", "m", "g">>

TEMPLATE_4_DOSAGE ==
    <<"5", "2", "5", "m", "g">>

TEMPLATE_4_QUANTITY ==
    <<"5", "6", " ", "t", "a", "b", "l", "e", "t", "s">>

TEMPLATE_4_INSTRUCTIONS ==
    <<"T", "a", "k", "e", " ", "1", " ", "t", "a", "b", "l", "e", "t", " ", "f", "o", "u",
      "r", " ", "t", "i", "m", "e", "s", " ", "d", "a", "i", "l", "y", " ", "(", "m", "o",
      "r", "n", "i", "n", "g", ",", " ", "l", "u", "n", "c", "h", ",", " ", "e", "v", "e",
      "n", "i", "n", "g", ",", " ", "b", "e", "d", "t", "i", "m", "e", ")", " ", "w", "i",
      "t", "h", " ", "m", "e", "a", "l", "s", " ", "f", "o", "r", " ", "1", "4", " ", "d",
      "a", "y", "s">>

CMD_START ==
    <<"/", "s", "t", "a", "r", "t">>

CMD_CANCEL ==
    <<"/", "c", "a", "n", "c", "e", "l">>

CMD_HELP ==
    <<"/", "h", "e", "l", "p">>

NAME_START ==
    <<"s", "t", "a", "r", "t">>

NAME_CANCEL ==
    <<"c", "a", "n", "c", "e", "l">>

TXT_BO ==
    <<"B", "o">>

TXT_BLANK ==
    <<" ", " ">>

TXT_ID_X ==
    <<"I", "D", ":", " ", "x">>

TXT_34 ==
    <<"3", "4">>

TXT_ABC ==
    <<"a", "b", "c">>

TXT_0 ==
    <<"0">>

TXT_MINUS_1 ==
    <<"-", "1">>

TXT_7_SPACED ==
    <<" ", "7", " ">>

TXT_3_4 ==
    <<"3", " ", "4">>

TXT_PLUS_5 ==
    <<"+", "5">>

TXT_1_0 ==
    <<"1", "_", "0">>

TXT_555 ==
    <<"5", "5", "5">>

TXT_FLU ==
    <<"f", "l", "u">>

TXT_ID_1 ==
    <<"I", "D", ":", " ", "1">>

TXT_ID_7 ==
    <<"I", "D", ":", " ", "7">>

TXT_ID_9 ==
    <<"I", "D", ":", " ", "9">>

TXT_PICK ==
    <<"p", "i", "c", "k">>

TXT_ID_7_ID_X ==
    <<"I", "D", ":", " ", "7", "I", "D", ":", " ", "x">>

TXT_ID_ABC ==
    <<"I", "D", ":", " ", "a", "b", "c">>

TXT_X_ID_2 ==
    <<"x", " ", "I", "D", ":", " ", "2">>

TXT_ID_X_LABEL ==
    <<"I", "D", ":", " ", "x", " ", "(", "A", "g", "e", ":", " ", "3", "4", ")", " ", "-",
      " ", "I", "D", ":", " ", "1">>

TXT_HPYLORI ==
    <<"h", ".", "p", "y", "l", "o", "r", "i">>

TXT_RX_LINE ==
    <<"A", " ", "|", " ", "B", " ", "|", " ", "C", " ", "|", " ", "D">>

TXT_HELLO ==
    <<"h", "e", "l", "l", "o">>

TXT_RX_BLOCK ==
    <<"n", "o", "t", "e", "\n", "A", " ", "|", " ", "B", " ", "|", " ", "C", " ", "|", " ",
      "D", "\n", "x", "|", "y", "\n", " ", "E", "|", "F", " ", "|", "G", "|", " ", "H",
      " ", "\n", "P", "|", "Q", "|", "R", "|", "S", "|", "T">>

(***************************************************************************)
(* Bounds of the model.                                                    *)
(***************************************************************************)

\* Rows the patients table may hold.
MaxPatients == 2

\* Rows the prescriptions table may hold.
MaxPrescriptions == 1

(***************************************************************************)
(* Program constants.                                                      *)
(***************************************************************************)

\* LIMIT of the patient query of create_prescription_start.
RecentPatientsLimit == 10

\* Telegram user ids of the operators (update.effective_user.id).
Operators == {1, 2}

\* Conversation states (range(6) of line 15) and ConversationHandler.END.
PATIENT_NAME == "PATIENT_NAME"
PATIENT_AGE == "PATIENT_AGE"
PATIENT_PHONE == "PATIENT_PHONE"
PATIENT_DIAGNOSIS == "PATIENT_DIAGNOSIS"
PRESCRIPTION_INPUT == "PRESCRIPTION_INPUT"
CONFIRM_PRESCRIPTION == "CONFIRM_PRESCRIPTION"
END == "END"

ConversationStates ==
    {PATIENT_NAME, PATIENT_AGE, PATIENT_PHONE, PATIENT_DIAGNOSIS,
     PRESCRIPTION_INPUT, CONFIRM_PRESCRIPTION}

(***************************************************************************)
(* State.                                                                  *)
(***************************************************************************)

VARIABLES
    conv,           \* ConversationHandler's state of each operator's conversation
    user_data,      \* context.user_data of each operator: a dict, key -> value
    patients,       \* rows of table patients, in rowid order
    prescriptions,  \* rows of table prescriptions, in rowid order
    now,            \* the clock, in timestamp ticks
    sent,           \* the bot's latest reply: to whom, and what
    keyboard,       \* the patient choices on each operator's reply keyboard
    parse_text,     \* a message text handed to the prescription parser
    parse_result    \* the parser's result for parse_text

vars ==
    <<conv, user_data, patients, prescriptions, now, sent, keyboard,
      parse_text, parse_result>>

botVars == <<conv, user_data, patients, prescriptions, now, sent, keyboard>>

parseVars == <<parse_text, parse_result>>

\* d[k] = v on a dict.
DictSet(d, k, v) == [x \in (DOMAIN d) \cup {k} |-> IF x = k THEN v ELSE d[x]]

\* A dict with no key.
EmptyDict == [x \in {} |-> 0]

NoResult == [done |-> FALSE, ok |-> FALSE, medications |-> <<>>]

Init ==
    /\ conv = [op \in Operators |-> END]
    /\ user_data = [op \in Operators |-> EmptyDict]
    /\ patients = <<>>
    /\ prescriptions = <<>>
    /\ now = 0
    /\ sent = [to |-> 0, what |-> "NONE"]
    /\ keyboard = [op \in Operators |-> <<>>]
    /\ parse_text = <<>>
    /\ parse_result = NoResult

(***************************************************************************)
(* Dispatch: filters of the handlers registered in MedicalBot.run.        *)
(***************************************************************************)

IsCommandChar(c) ==
    \/ IsDigit(c)
    \/ c = "_"
    \/ \E i \in 1..Len(LOWER) : LOWER[i] = c \/ UPPER[i] = c

\* filters.COMMAND: the message starts with a bot command, "/name".
IsCommand(t) == Len(t) >= 2 /\ t[1] = "/" /\ IsCommandChar(t[2])

\* The command's name, as CommandHandler compares it (lower-cased).
CommandName(t) ==
    LET stop == {i \in 2..Len(t) : ~IsCommandChar(t[i])}
        last == IF stop = {} THEN Len(t)
                ELSE (CHOOSE i \in stop : \A j \in stop : i <= j) - 1
    IN  PyLower(SubSeq(t, 2, last))

\* filters.TEXT & ~filters.COMMAND
IsPlainText(t) == t # <<>> /\ ~IsCommand(t)

\* filters.Regex(r'^label$'): re.search, where $ also matches before a final
\* line break.
MatchesRegex(t, label) == t = label \/ t = label \o <<"\n">>

IsEntryPoint(t) ==
    MatchesRegex(t, BTN_ADD_PATIENT) \/ MatchesRegex(t, BTN_CREATE_PRESCRIPTION)

(***************************************************************************)
(* The record store.                                                       *)
(***************************************************************************)

\* INSERT INTO patients: the AUTOINCREMENT id and the DEFAULT CURRENT_TIMESTAMP.
InsertPatient(name, age, phone, op) ==
    Append(patients,
           [id |-> Len(patients) + 1, name |-> name, age |-> age, phone |-> phone,
            telegram_user_id |-> op, created_at |-> now])

\* SELECT ... FROM patients WHERE id = ?, fetchone(): the rows found.
PatientById(pid) == {i \in 1..Len(patients) : patients[i].id = pid}

\* The ids of the patients of an operator (WHERE telegram_user_id = ?).
PatientsOf(op) == {i \in 1..Len(patients) : patients[i].telegram_user_id = op}

\* ORDER BY created_at DESC over the rows ids: every order of them in which
\* created_at never increases. Rows of one timestamp come in an order SQL
\* leaves open.
RECURSIVE OrderByCreatedDesc(_)
OrderByCreatedDesc(ids) ==
    IF ids = {} THEN {<<>>}
    ELSE LET latest == {i \in ids :
                           \A j \in ids : patients[i].created_at >= patients[j].created_at}
         IN  UNION {{<<i>> \o s : s \in OrderByCreatedDesc(ids \ {i})} : i \in latest}

\* LIMIT n
Limit(s, n) == SubSeq(s, 1, IF Len(s) < n THEN Len(s) ELSE n)

\* The results the patient query of create_prescription_start may return.
RecentPatients(op) ==
    {Limit(s, RecentPatientsLimit) : s \in OrderByCreatedDesc(PatientsOf(op))}

\* json.dumps of the medication list: an array of objects, each with its four
\* keys in insertion order.
JsonDumps(meds) ==
    [json |-> [i \in 1..Len(meds) |->
        << <<"name", meds[i].name>>, <<"dosage", meds[i].dosage>>,
           <<"quantity", meds[i].quantity>>,
           <<"instructions", meds[i].instructions>> >>]]

\* json.loads of a stored medication list.
JsonLoads(j) ==
    [i \in 1..Len(j.json) |->
        [name |-> j.json[i][1][2], dosage |-> j.json[i][2][2],
         quantity |-> j.json[i][3][2], instructions |-> j.json[i][4][2]]]

\* INSERT INTO prescriptions
InsertPrescription(patient_id, diagnosis, today, medications_json) ==
    Append(prescriptions,
           [id |-> Len(prescriptions) + 1, patient_id |-> patient_id,
            diagnosis |-> diagnosis, admission_date |-> today,
            discharge_date |-> today, medications |-> medications_json,
            created_at |-> now])

\* The prescriptions an operator's queries join to (JOIN patients pt ON
\* p.patient_id = pt.id WHERE pt.telegram_user_id = ?).
PrescriptionsOf(op) ==
    {i \in 1..Len(prescriptions) :
        \E p \in PatientsOf(op) : patients[p].id = prescriptions[i].patient_id}

(***************************************************************************)
(* The handlers. Each is the whole handler: its replies, its writes to    *)
(* user_data and to the tables, and the conversation state it returns.    *)
(***************************************************************************)

Reply(op, what) == sent' = [to |-> op, what |-> what]

\* The reply's reply_markup replaces or removes the operator's keyboard.
Keyboard(op, choices) == keyboard' = [keyboard EXCEPT ![op] = choices]

Goto(op, state) == conv' = [conv EXCEPT ![op] = state]

start(op) ==
    /\ Reply(op, "WELCOME")
    /\ Keyboard(op, <<>>)
    /\ UNCHANGED <<conv, user_data, patients, prescriptions, now>>

add_patient_start(op) ==
    /\ Reply(op, "ASK_NAME")
    /\ Goto(op, PATIENT_NAME)
    /\ UNCHANGED <<user_data, patients, prescriptions, now, keyboard>>

\* patient_name writing to one dict shared by all operators.
patient_name_shared_context(op, t) ==
    /\ user_data' = [o \in DOMAIN user_data |-> DictSet(user_data[o], "patient_name", t)]
    /\ Reply(op, "ASK_AGE")
    /\ Goto(op, PATIENT_AGE)
    /\ UNCHANGED <<patients, prescriptions, now, keyboard>>

patient_name(op, t) ==
    /\ user_data' = [user_data EXCEPT ![op] = DictSet(@, "patient_name", t)]
    /\ Reply(op, "ASK_AGE")
    /\ Goto(op, PATIENT_AGE)
    /\ UNCHANGED <<patients, prescriptions, now, keyboard>>

\* patient_age refusing negative ages.
patient_age_non_negative(op, t) ==
    LET age == PyInt(t)
    IN  IF age.ok /\ age.val >= 0
        THEN /\ user_data' = [user_data EXCEPT ![op] = DictSet(@, "patient_age", age.val)]
             /\ Reply(op, "ASK_PHONE")
             /\ Goto(op, PATIENT_PHONE)
             /\ UNCHANGED <<patients, prescriptions, now, keyboard>>
        ELSE /\ Reply(op, "INVALID_AGE")
             /\ Goto(op, PATIENT_AGE)
             /\ UNCHANGED <<user_data, patients, prescriptions, now, keyboard>>

patient_age(op, t) ==
    LET age == PyInt(t)
    IN  IF age.ok
        THEN /\ user_data' = [user_data EXCEPT ![op] = DictSet(@, "patient_age", age.val)]
             /\ Reply(op, "ASK_PHONE")
             /\ Goto(op, PATIENT_PHONE)
             /\ UNCHANGED <<patients, prescriptions, now, keyboard>>
        ELSE /\ Reply(op, "INVALID_AGE")
             /\ Goto(op, PATIENT_AGE)
             /\ UNCHANGED <<user_data, patients, prescriptions, now, keyboard>>

\* patient_phone storing every patient under the first operator's id.
patient_phone_fixed_owner(op, t) ==
    \/ /\ Len(patients) < MaxPatients
       /\ patients' = InsertPatient(user_data[op]["patient_name"],
                                    user_data[op]["patient_age"], t, 1)
       /\ user_data' = [user_data EXCEPT ![op] =
              DictSet(DictSet(@, "patient_phone", t),
                      "current_patient_id", Len(patients) + 1)]
       /\ Reply(op, "PATIENT_ADDED")
       /\ Keyboard(op, <<>>)
       /\ Goto(op, END)
       /\ UNCHANGED <<prescriptions, now>>
    \/ /\ user_data' = [user_data EXCEPT ![op] = DictSet(@, "patient_phone", t)]
       /\ Reply(op, "ERROR_OperationalError")
       /\ UNCHANGED <<conv, patients, prescriptions, now, keyboard>>

\* patient_phone catching the store's error and ending the conversation.
patient_phone_giving_up(op, t) ==
    \/ /\ Len(patients) < MaxPatients
       /\ patients' = InsertPatient(user_data[op]["patient_name"],
                                    user_data[op]["patient_age"], t, op)
       /\ user_data' = [user_data EXCEPT ![op] =
              DictSet(DictSet(@, "patient_phone", t),
                      "current_patient_id", Len(patients) + 1)]
       /\ Reply(op, "PATIENT_ADDED")
       /\ Keyboard(op, <<>>)
       /\ Goto(op, END)
       /\ UNCHANGED <<prescriptions, now>>
    \/ /\ user_data' = [user_data EXCEPT ![op] = DictSet(@, "patient_phone", t)]
       /\ Reply(op, "ERROR_OperationalError")
       /\ Goto(op, END)
       /\ UNCHANGED <<patients, prescriptions, now, keyboard>>

\* The phone is written to user_data first. Then either the INSERT is
\* committed, or the store raises (sqlite3.connect, execute or commit fails):
\* the exception leaves the handler, no row is added and the conversation
\* keeps its state.
patient_phone(op, t) ==
    \/ /\ Len(patients) < MaxPatients
       /\ patients' = InsertPatient(user_data[op]["patient_name"],
                                    user_data[op]["patient_age"], t, op)
       /\ user_data' = [user_data EXCEPT ![op] =
              DictSet(DictSet(@, "patient_phone", t),
                      "current_patient_id", Len(patients) + 1)]
       /\ Reply(op, "PATIENT_ADDED")
       /\ Keyboard(op, <<>>)
       /\ Goto(op, END)
       /\ UNCHANGED <<prescriptions, now>>
    \/ /\ user_data' = [user_data EXCEPT ![op] = DictSet(@, "patient_phone", t)]
       /\ Reply(op, "ERROR_OperationalError")
       /\ UNCHANGED <<conv, patients, prescriptions, now, keyboard>>

\* The choice label of a patient row on the selection keyboard.
PatientLabel(row) ==
    row.name \o LABEL_AGE_OPEN \o PyStr(row.age) \o LABEL_ID_OPEN \o PyStr(row.id)

\* create_prescription_start with the patient query lacking its
\* WHERE telegram_user_id = ? clause.
create_prescription_start_any_owner(op) ==
    \E s \in OrderByCreatedDesc(1..Len(patients)) :
        LET found == Limit(s, RecentPatientsLimit)
        IN  IF found = <<>>
            THEN /\ Reply(op, "NO_PATIENTS_ADD_FIRST")
                 /\ Keyboard(op, <<>>)
                 /\ Goto(op, END)
                 /\ UNCHANGED <<user_data, patients, prescriptions, now>>
            ELSE /\ Reply(op, "SELECT_PATIENT")
                 /\ Keyboard(op, [i \in 1..Len(found) |-> PatientLabel(patients[found[i]])])
                 /\ Goto(op, PATIENT_DIAGNOSIS)
                 /\ UNCHANGED <<user_data, patients, prescriptions, now>>

create_prescription_start(op) ==
    \E found \in RecentPatients(op) :
        IF found = <<>>
        THEN /\ Reply(op, "NO_PATIENTS_ADD_FIRST")
             /\ Keyboard(op, <<>>)
             /\ Goto(op, END)
             /\ UNCHANGED <<user_data, patients, prescriptions, now>>
        ELSE /\ Reply(op, "SELECT_PATIENT")
             /\ Keyboard(op, [i \in 1..Len(found) |-> PatientLabel(patients[found[i]])])
             /\ Goto(op, PATIENT_DIAGNOSIS)
             /\ UNCHANGED <<user_data, patients, prescriptions, now>>

\* cancel keeping the draft: a cancelled prescription with a patient and a
\* diagnosis is stored with an empty medication list.
cancel_saving_draft(op) ==
    /\ Reply(op, "CANCELLED")
    /\ Keyboard(op, <<>>)
    /\ Goto(op, END)
    /\ prescriptions' =
          IF /\ {"selected_patient_id", "diagnosis"} \subseteq DOMAIN user_data[op]
             /\ Len(prescriptions) < MaxPrescriptions
          THEN InsertPrescription(user_data[op]["selected_patient_id"],
                                  user_data[op]["diagnosis"], now, JsonDumps(<<>>))
          ELSE prescriptions
    /\ UNCHANGED <<user_data, patients, now>>

cancel(op) ==
    /\ Reply(op, "CANCELLED")
    /\ Keyboard(op, <<>>)
    /\ Goto(op, END)
    /\ UNCHANGED <<user_data, patients, prescriptions, now>>

patient_diagnosis(op, t) ==
    IF t = BTN_SELECT_CANCEL THEN cancel(op)
    ELSE LET parts == PySplit(t, ID_MARKER)
             pid   == IF Len(parts) >= 2 THEN PyInt(parts[2])
                      ELSE [ok |-> FALSE, val |-> 0]
         IN  IF pid.ok
             THEN /\ user_data' = [user_data EXCEPT ![op] =
                        DictSet(@, "selected_patient_id", pid.val)]
                  /\ Reply(op, "ASK_DIAGNOSIS")
                  /\ Keyboard(op, <<>>)
                  /\ Goto(op, PRESCRIPTION_INPUT)
                  /\ UNCHANGED <<patients, prescriptions, now>>
             ELSE /\ Reply(op, "SELECT_FROM_LIST")
                  /\ Goto(op, PATIENT_DIAGNOSIS)
                  /\ UNCHANGED <<user_data, patients, prescriptions, now, keyboard>>

prescription_input(op, t) ==
    /\ user_data' = [user_data EXCEPT ![op] = DictSet(@, "diagnosis", t)]
    /\ Reply(op, "PRESCRIPTION_FORMAT")
    /\ Goto(op, CONFIRM_PRESCRIPTION)
    /\ UNCHANGED <<patients, prescriptions, now, keyboard>>

(***************************************************************************)
(* The prescription parser of confirm_prescription.                       *)
(***************************************************************************)

\* The H. pylori template.
TemplateMedications ==
    <<[name |-> TEMPLATE_1_NAME, dosage |-> TEMPLATE_1_DOSAGE,
       quantity |-> TEMPLATE_1_QUANTITY, instructions |-> TEMPLATE_1_INSTRUCTIONS],
      [name |-> TEMPLATE_2_NAME, dosage |-> TEMPLATE_2_DOSAGE,
       quantity |-> TEMPLATE_2_QUANTITY, instructions |-> TEMPLATE_2_INSTRUCTIONS],
      [name |-> TEMPLATE_3_NAME, dosage |-> TEMPLATE_3_DOSAGE,
       quantity |-> TEMPLATE_3_QUANTITY, instructions |-> TEMPLATE_3_INSTRUCTIONS],
      [name |-> TEMPLATE_4_NAME, dosage |-> TEMPLATE_4_DOSAGE,
       quantity |-> TEMPLATE_4_QUANTITY, instructions |-> TEMPLATE_4_INSTRUCTIONS]>>

\* The keyword test: update.message.text.lower() == 'h.pylori'.
IsTemplateKeyword(t) == PyLower(t) = HPYLORI_KEYWORD

\* ParseLine taking every line of at least 4 segments.
ParseLine_at_least_four(line) ==
    LET raw   == PySplit(line, <<"|">>)
        parts == [i \in 1..Len(raw) |-> PyStrip(raw[i])]
    IN  IF PyContains(line, <<"|">>) /\ Len(parts) >= 4
        THEN <<[name |-> parts[1], dosage |-> parts[2],
                quantity |-> parts[3], instructions |-> parts[4]]>>
        ELSE <<>>

\* One line of a custom prescription: the entries it appends.
ParseLine(line) ==
    LET raw   == PySplit(line, <<"|">>)
        parts == [i \in 1..Len(raw) |-> PyStrip(raw[i])]
    IN  IF PyContains(line, <<"|">>) /\ Len(parts) = 4
        THEN <<[name |-> parts[1], dosage |-> parts[2],
                quantity |-> parts[3], instructions |-> parts[4]]>>
        ELSE <<>>

\* The loop over the lines.
RECURSIVE ParseLines(_)
ParseLines(lines) ==
    IF lines = <<>> THEN <<>>
    ELSE ParseLine(Head(lines)) \o ParseLines(Tail(lines))

\* The medications confirm_prescription builds from a message text.
ParseMedications(t) ==
    IF IsTemplateKeyword(t) THEN TemplateMedications
    ELSE ParseLines(PySplit(PyStrip(t), <<"\n">>))

\* confirm_prescription: no handler of MedicalBot.run refers to it.
confirm_prescription(op, t) ==
    LET medications == ParseMedications(t)
        withMeds    == DictSet(user_data[op], "medications", medications)
    IN  IF medications = <<>>
        THEN /\ Reply(op, "INVALID_PRESCRIPTION_FORMAT")
             /\ Goto(op, CONFIRM_PRESCRIPTION)
             /\ UNCHANGED <<user_data, patients, prescriptions, now, keyboard>>
        ELSE IF PatientById(user_data[op]["selected_patient_id"]) = {}
        THEN \* fetchone() is None: patient[0] raises TypeError
             /\ user_data' = [user_data EXCEPT ![op] = withMeds]
             /\ Reply(op, "ERROR_TypeError")
             /\ UNCHANGED <<conv, patients, prescriptions, now, keyboard>>
        ELSE /\ user_data' = [user_data EXCEPT ![op] = withMeds]
             /\ Reply(op, "PRESCRIPTION_PREVIEW")
             /\ Keyboard(op, <<>>)
             /\ Goto(op, CONFIRM_PRESCRIPTION)
             /\ UNCHANGED <<patients, prescriptions, now>>

\* save_prescription reading the list with .get('medications', []): a missing
\* list is saved as an empty one.
save_prescription_default_list(op, t) ==
    IF t = BTN_CONFIRM_SAVE
    THEN /\ Len(prescriptions) < MaxPrescriptions
         /\ prescriptions' =
               InsertPrescription(user_data[op]["selected_patient_id"],
                                  user_data[op]["diagnosis"], now,
                                  JsonDumps(IF "medications" \in DOMAIN user_data[op]
                                            THEN user_data[op]["medications"]
                                            ELSE <<>>))
         /\ Reply(op, "PRESCRIPTION_SAVED")
         /\ Keyboard(op, <<>>)
         /\ Goto(op, END)
         /\ UNCHANGED <<user_data, patients, now>>
    ELSE IF t = BTN_EDIT
    THEN /\ Reply(op, "ASK_CORRECTED_PRESCRIPTION")
         /\ Keyboard(op, <<>>)
         /\ Goto(op, CONFIRM_PRESCRIPTION)
         /\ UNCHANGED <<user_data, patients, prescriptions, now>>
    ELSE /\ Reply(op, "CANCELLED")
         /\ Keyboard(op, <<>>)
         /\ Goto(op, END)
         /\ UNCHANGED <<user_data, patients, prescriptions, now>>

save_prescription(op, t) ==
    IF t = BTN_CONFIRM_SAVE
    THEN IF "medications" \notin DOMAIN user_data[op]
         THEN \* context.user_data['medications'] raises KeyError before the INSERT
              /\ Reply(op, "ERROR_KeyError")
              /\ UNCHANGED <<conv, user_data, patients, prescriptions, now, keyboard>>
         ELSE \/ /\ Len(prescriptions) < MaxPrescriptions
                 /\ prescriptions' =
                       InsertPrescription(user_data[op]["selected_patient_id"],
                                          user_data[op]["diagnosis"], now,
                                          JsonDumps(user_data[op]["medications"]))
                 /\ Reply(op, "PRESCRIPTION_SAVED")
                 /\ Keyboard(op, <<>>)
                 /\ Goto(op, END)
                 /\ UNCHANGED <<user_data, patients, now>>
              \/ \* the store raises: no row is added, the state is kept
                 /\ Reply(op, "ERROR_OperationalError")
                 /\ UNCHANGED <<conv, user_data, patients, prescriptions, now, keyboard>>
    ELSE IF t = BTN_EDIT
    THEN /\ Reply(op, "ASK_CORRECTED_PRESCRIPTION")
         /\ Keyboard(op, <<>>)
         /\ Goto(op, CONFIRM_PRESCRIPTION)
         /\ UNCHANGED <<user_data, patients, prescriptions, now>>
    ELSE cancel(op)

(***************************************************************************)
(* The read-only menu operations.                                          *)
(***************************************************************************)

view_patients(op) ==
    /\ Reply(op, IF PatientsOf(op) = {} THEN "NO_PATIENTS_FOUND" ELSE "PATIENT_LIST")
    /\ UNCHANGED <<conv, user_data, patients, prescriptions, now, keyboard>>

view_prescriptions(op) ==
    /\ Reply(op, IF PrescriptionsOf(op) = {} THEN "NO_PRESCRIPTIONS_FOUND"
                 ELSE "RECENT_PRESCRIPTIONS")
    /\ UNCHANGED <<conv, user_data, patients, prescriptions, now, keyboard>>

\* search_patient noting in user_data that a search term is awaited.
search_patient_arming(op) ==
    /\ user_data' = [user_data EXCEPT ![op] = DictSet(@, "awaiting_search", TRUE)]
    /\ Reply(op, "SEARCH_PROMPT")
    /\ Keyboard(op, <<>>)
    /\ UNCHANGED <<conv, patients, prescriptions, now>>

search_patient(op) ==
    /\ Reply(op, "SEARCH_PROMPT")
    /\ Keyboard(op, <<>>)
    /\ UNCHANGED <<conv, user_data, patients, prescriptions, now>>

\* SQLite's LIKE: % stands for any run of characters, _ for any one character,
\* and ASCII letters match in either case.
RECURSIVE LikeMatch(_, _)
LikeMatch(pattern, s) ==
    IF pattern = <<>> THEN s = <<>>
    ELSE IF Head(pattern) = "%"
    THEN \E k \in 0..Len(s) : LikeMatch(Tail(pattern), SubSeq(s, k + 1, Len(s)))
    ELSE IF s = <<>> THEN FALSE
    ELSE /\ Head(pattern) = "_" \/ LowerChar(Head(pattern)) = LowerChar(Head(s))
         /\ LikeMatch(Tail(pattern), Tail(s))

\* The rows of the search query: the operator's patients whose name or phone
\* is LIKE %search_term%.
SearchResults(op, search_term) ==
    LET pattern == <<"%">> \o search_term \o <<"%">>
    IN  {i \in PatientsOf(op) :
            LikeMatch(pattern, patients[i].name) \/ LikeMatch(pattern, patients[i].phone)}

handle_search(op, t) ==
    /\ Reply(op, IF SearchResults(op, PyStrip(t)) = {} THEN "NO_PATIENTS_MATCHING"
                 ELSE "SEARCH_RESULTS")
    /\ UNCHANGED <<conv, user_data, patients, prescriptions, now, keyboard>>

statistics(op) ==
    /\ Reply(op, "STATISTICS")
    /\ UNCHANGED <<conv, user_data, patients, prescriptions, now, keyboard>>

\* A branch that sends nothing, or an update no handler takes.
NoReply(op) ==
    /\ Reply(op, "NO_REPLY")
    /\ UNCHANGED <<conv, user_data, patients, prescriptions, now, keyboard>>

\* button_handler runs outside the ConversationHandler: the state a sub-handler
\* returns is dropped.
button_handler(op, t) ==
    IF t = BTN_ADD_PATIENT
    THEN /\ Reply(op, "ASK_NAME")
         /\ UNCHANGED <<conv, user_data, patients, prescriptions, now, keyboard>>
    ELSE IF t = BTN_VIEW_PATIENTS THEN view_patients(op)
    ELSE IF t = BTN_CREATE_PRESCRIPTION
    THEN /\ Reply(op, IF PatientsOf(op) = {} THEN "NO_PATIENTS_ADD_FIRST"
                      ELSE "SELECT_PATIENT")
         /\ \E found \in RecentPatients(op) :
                Keyboard(op, [i \in 1..Len(found) |-> PatientLabel(patients[found[i]])])
         /\ UNCHANGED <<conv, user_data, patients, prescriptions, now>>
    ELSE IF t = BTN_VIEW_PRESCRIPTIONS THEN view_prescriptions(op)
    ELSE IF t = BTN_SEARCH_PATIENT THEN search_patient(op)
    ELSE IF t = BTN_STATISTICS THEN statistics(op)
    ELSE IF t = BTN_MAIN_MENU THEN start(op)
    ELSE NoReply(op)


(***************************************************************************)
(* What the read-only queries return to an operator. A query whose ORDER  *)
(* BY leaves rows of one timestamp in an open order has several possible  *)
(* results: each operator below is the set of them.                        *)
(***************************************************************************)

\* LIMIT of the query of view_patients.
ViewPatientsLimit == 20

\* LIMIT of the query of view_prescriptions.
ViewPrescriptionsLimit == 10

\* Timestamp ticks in a calendar day.
TicksPerDay == 2

\* DATE(timestamp), datetime.now().date()
DateOf(timestamp) == timestamp \div TicksPerDay

\* The rows view_patients may fetch: id, name, age, phone, created_at.
ViewPatientsRows(op) ==
    {[i \in 1..Len(Limit(s, ViewPatientsLimit)) |->
         <<patients[s[i]].id, patients[s[i]].name, patients[s[i]].age,
           patients[s[i]].phone, patients[s[i]].created_at>>] :
     s \in OrderByCreatedDesc(PatientsOf(op))}

\* ORDER BY p.created_at DESC over the prescriptions ids.
RECURSIVE OrderPrescriptionsDesc(_)
OrderPrescriptionsDesc(ids) ==
    IF ids = {} THEN {<<>>}
    ELSE LET latest == {i \in ids : \A j \in ids :
                           prescriptions[i].created_at >= prescriptions[j].created_at}
         IN  UNION {{<<i>> \o s : s \in OrderPrescriptionsDesc(ids \ {i})} : i \in latest}

\* The name of the patient a prescription joins to.
JoinedPatientName(rx) ==
    patients[CHOOSE p \in 1..Len(patients) : patients[p].id = rx.patient_id].name

\* The rows view_prescriptions may fetch, as it shows them: id, patient name,
\* diagnosis, admission date and the number of medications.
ViewPrescriptionsRows(op) ==
    {[i \in 1..Len(Limit(s, ViewPrescriptionsLimit)) |->
         <<prescriptions[s[i]].id, JoinedPatientName(prescriptions[s[i]]),
           prescriptions[s[i]].diagnosis, prescriptions[s[i]].admission_date,
           Len(JsonLoads(prescriptions[s[i]].medications))>>] :
     s \in OrderPrescriptionsDesc(PrescriptionsOf(op))}

\* The three counts of statistics: patients, prescriptions, today's prescriptions.
StatisticsCounts(op) ==
    [patient_count |-> Cardinality(PatientsOf(op)),
     prescription_count |-> Cardinality(PrescriptionsOf(op)),
     today_prescriptions |->
         Cardinality({i \in PrescriptionsOf(op) :
                         DateOf(prescriptions[i].created_at) = DateOf(now)})]
(***************************************************************************)
(* Dispatch of one update, as Application.process_update does it over the *)
(* handlers added in MedicalBot.run: CommandHandler("start"), then the     *)
(* ConversationHandler, then button_handler; the first whose filter takes *)
(* the update handles it.                                                  *)
(***************************************************************************)

IsStartCommand(t) == IsCommand(t) /\ CommandName(t) = NAME_START

IsCancelCommand(t) == IsCommand(t) /\ CommandName(t) = NAME_CANCEL

(***************************************************************************)
(* The messages the operators send.                                        *)
(***************************************************************************)

Range(s) == {s[i] : i \in 1..Len(s)}

\* The texts of a set that a state's handler takes (filters.TEXT & ~filters.COMMAND).
Plain(texts) == {t \in texts : IsPlainText(t)}

\* A set of sample messages, sorted by the handler whose filter takes each:
\* commands and menu are sent at any time, the other fields in the conversation
\* state that asks for them.
Inputs(commands, menu, names, ages, phones, choices, diagnoses, reviews) ==
    [starts    |-> {t \in commands \cup menu : IsStartCommand(t)},
     cancels   |-> {t \in commands \cup menu : IsCancelCommand(t)},
     commands  |-> {t \in commands \cup menu : IsCommand(t)},
     adds      |-> {t \in menu : ~IsStartCommand(t) /\ MatchesRegex(t, BTN_ADD_PATIENT)},
     creates   |-> {t \in menu : /\ ~IsStartCommand(t)
                                 /\ ~MatchesRegex(t, BTN_ADD_PATIENT)
                                 /\ MatchesRegex(t, BTN_CREATE_PRESCRIPTION)},
     buttons   |-> {t \in menu : IsPlainText(t) /\ ~IsEntryPoint(t)},
     names     |-> Plain(names),
     ages      |-> Plain(ages),
     phones    |-> Plain(phones),
     choices   |-> Plain(choices),
     diagnoses |-> Plain(diagnoses),
     reviews   |-> Plain(reviews)]

(***************************************************************************)
(* Dispatch of one update, as Application.process_update does it over the *)
(* handlers added in MedicalBot.run: CommandHandler("start"), then the     *)
(* ConversationHandler (entry points when no conversation is active, else *)
(* the state's handler, else the fallback), then button_handler. The      *)
(* first whose filter takes the update handles it.                         *)
(***************************************************************************)

OnStartCommand(op, in) ==
    /\ \E t \in in.starts : start(op)
    /\ UNCHANGED parseVars

OnAddPatient(op, in) ==
    /\ conv[op] = END
    /\ \E t \in in.adds : add_patient_start(op)
    /\ UNCHANGED parseVars

OnCreatePrescription(op, in) ==
    /\ conv[op] = END
    /\ \E t \in in.creates : create_prescription_start(op)
    /\ UNCHANGED parseVars

OnPatientName(op, in) ==
    /\ conv[op] = PATIENT_NAME
    /\ \E t \in in.names : patient_name(op, t)
    /\ UNCHANGED parseVars

OnPatientAge(op, in) ==
    /\ conv[op] = PATIENT_AGE
    /\ \E t \in in.ages : patient_age(op, t)
    /\ UNCHANGED parseVars

OnPatientPhone(op, in) ==
    /\ conv[op] = PATIENT_PHONE
    /\ \E t \in in.phones : patient_phone(op, t)
    /\ UNCHANGED parseVars

\* The operator taps a choice of the keyboard, or types a text.
OnPatientChoice(op, in) ==
    /\ conv[op] = PATIENT_DIAGNOSIS
    /\ \E t \in in.choices \cup Plain(Range(keyboard[op])) : patient_diagnosis(op, t)
    /\ UNCHANGED parseVars

OnDiagnosis(op, in) ==
    /\ conv[op] = PRESCRIPTION_INPUT
    /\ \E t \in in.diagnoses : prescription_input(op, t)
    /\ UNCHANGED parseVars

OnConfirmState(op, in) ==
    /\ conv[op] = CONFIRM_PRESCRIPTION
    /\ \E t \in in.reviews : save_prescription(op, t)
    /\ UNCHANGED parseVars

OnCancelCommand(op, in) ==
    /\ conv[op] # END
    /\ \E t \in in.cancels : cancel(op)
    /\ UNCHANGED parseVars

OnButton(op, in) ==
    /\ conv[op] = END
    /\ \E t \in in.buttons : button_handler(op, t)
    /\ UNCHANGED parseVars

\* A command no handler takes: /cancel outside a conversation, or an unknown one.
OnUnhandled(op, in) ==
    /\ \E t \in in.commands :
          /\ t \notin in.starts
          /\ ~(conv[op] # END /\ t \in in.cancels)
    /\ NoReply(op)
    /\ UNCHANGED parseVars

\* The clock advances. A tick is taken only when a row carries the present
\* timestamp: further ticks change nothing a handler can tell apart.
Tick ==
    /\ \/ \E i \in 1..Len(patients) : patients[i].created_at = now
       \/ \E i \in 1..Len(prescriptions) : prescriptions[i].created_at = now
    /\ now' = now + 1
    /\ UNCHANGED <<conv, user_data, patients, prescriptions, sent, keyboard>>
    /\ UNCHANGED parseVars

BotNext(ops, in) ==
    \/ \E op \in ops : OnStartCommand(op, in)
    \/ \E op \in ops : OnAddPatient(op, in)
    \/ \E op \in ops : OnCreatePrescription(op, in)
    \/ \E op \in ops : OnPatientName(op, in)
    \/ \E op \in ops : OnPatientAge(op, in)
    \/ \E op \in ops : OnPatientPhone(op, in)
    \/ \E op \in ops : OnPatientChoice(op, in)
    \/ \E op \in ops : OnDiagnosis(op, in)
    \/ \E op \in ops : OnConfirmState(op, in)
    \/ \E op \in ops : OnCancelCommand(op, in)
    \/ \E op \in ops : OnButton(op, in)
    \/ \E op \in ops : OnUnhandled(op, in)
    \/ Tick

\* Two operators, one sample of each field.
SmallInputs ==
    Inputs({CMD_CANCEL},
           {BTN_ADD_PATIENT, BTN_CREATE_PRESCRIPTION, BTN_VIEW_PRESCRIPTIONS, CMD_START},
           {TXT_BO}, {TXT_34}, {TXT_555}, {BTN_SELECT_CANCEL, TXT_ID_1}, {TXT_FLU},
           {BTN_CONFIRM_SAVE, BTN_EDIT, TXT_HPYLORI})

Next == BotNext(Operators, SmallInputs)

Spec == Init /\ [][Next]_vars

\* One operator, with the samples that take every branch of every handler.
OneOperator == {1}

RichInputs ==
    Inputs({CMD_START, CMD_CANCEL, CMD_HELP},
           {BTN_ADD_PATIENT, BTN_VIEW_PATIENTS, BTN_CREATE_PRESCRIPTION,
            BTN_VIEW_PRESCRIPTIONS, BTN_SEARCH_PATIENT, BTN_STATISTICS, BTN_MAIN_MENU,
            BTN_NEW_PRESCRIPTION, BTN_CONFIRM_SAVE, TXT_HELLO},
           {TXT_BO},
           {TXT_34, TXT_ABC, TXT_0, TXT_MINUS_1, TXT_3_4},
           {TXT_555},
           {BTN_SELECT_CANCEL, TXT_PICK, TXT_ID_7, TXT_ID_ABC, TXT_ID_7_ID_X,
            TXT_X_ID_2, TXT_ID_X_LABEL},
           {TXT_FLU},
           {BTN_CONFIRM_SAVE, BTN_REVIEW_CANCEL, BTN_EDIT, TXT_HPYLORI, TXT_RX_LINE})

NextOne == BotNext(OneOperator, RichInputs)

SpecOne == Init /\ [][NextOne]_vars


\* One operator who also gives names of whitespace only.
NameInputs ==
    Inputs({CMD_START, CMD_CANCEL},
           {BTN_ADD_PATIENT, BTN_VIEW_PATIENTS, BTN_CREATE_PRESCRIPTION},
           {TXT_BO, TXT_BLANK}, {TXT_34}, {TXT_555}, {BTN_SELECT_CANCEL}, {TXT_FLU},
           {BTN_CONFIRM_SAVE})

NextNames == BotNext(OneOperator, NameInputs)

SpecNames == Init /\ [][NextNames]_vars
(***************************************************************************)
(* The parser on its own: a text is drawn, then parsed.                    *)
(***************************************************************************)

\* Longest text drawn from ParseAlphabet.
MaxTextLen == 7

ParseAlphabet == {"a", "|", " ", "\n"}

\* Every text over ParseAlphabet of 1..MaxTextLen characters.
ShortTexts == UNION {[1..n -> ParseAlphabet] : n \in 1..MaxTextLen}

\* str.upper() on one character.
UpperChar(c) ==
    IF \E i \in 1..Len(LOWER) : LOWER[i] = c
    THEN UPPER[CHOOSE i \in 1..Len(LOWER) : LOWER[i] = c]
    ELSE c

\* A text in every letter casing.
RECURSIVE Casings(_)
Casings(s) ==
    IF s = <<>> THEN {<<>>}
    ELSE {<<c>> \o r : c \in {Head(s), UpperChar(Head(s))}, r \in Casings(Tail(s))}

KeywordCasings == Casings(HPYLORI_KEYWORD)

Paddings == {<<>>, <<" ">>, <<"\n">>}

\* The keyword in every letter casing, alone or with whitespace around it or
\* with a medication line after it.
KeywordTexts ==
    {pre \o k \o post : pre \in Paddings, k \in KeywordCasings,
                        post \in Paddings \cup {<<"\n">> \o TXT_RX_LINE}}

ParseTexts == ShortTexts \cup KeywordTexts \cup {TXT_RX_LINE, TXT_RX_BLOCK, TXT_HELLO}

InitParse ==
    /\ conv = [op \in Operators |-> END]
    /\ user_data = [op \in Operators |-> EmptyDict]
    /\ patients = <<>>
    /\ prescriptions = <<>>
    /\ now = 0
    /\ sent = [to |-> 0, what |-> "NONE"]
    /\ keyboard = [op \in Operators |-> <<>>]
    /\ parse_text \in ParseTexts
    /\ parse_result = NoResult

\* Lines 243-293 of confirm_prescription on parse_text: the medications, and
\* whether the text passes the "if not medications" test.
Parse ==
    /\ ~parse_result.done
    /\ parse_result' = [done |-> TRUE,
                        ok |-> ParseMedications(parse_text) # <<>>,
                        medications |-> ParseMedications(parse_text)]
    /\ UNCHANGED <<parse_text, conv, user_data, patients, prescriptions, now, sent,
                   keyboard>>

NextParse == Parse

SpecParse == InitParse /\ [][NextParse]_vars


(***************************************************************************)
(* The patient menu over a large table: the bot is started on a database  *)
(* that already holds patients, more of them than the menu's LIMIT, and   *)
(* the operators open and leave the patient selection.                    *)
(***************************************************************************)

\* Rows of the patients table the bot is started on.
MaxStoredPatients == 12

\* Rows of it that belong to another operator than operator 1.
MaxOtherPatients == 2

\* The table after n registrations by the operators owner[1], ..., owner[n]:
\* the first two fall into one second, the others into a second each.
StoredPatients(n, owner) ==
    [i \in 1..n |->
        [id |-> i, name |-> TXT_BO, age |-> 34, phone |-> TXT_555,
         telegram_user_id |-> owner[i],
         created_at |-> IF i <= 2 THEN 0 ELSE i]]

\* A fresh process: no conversation and no user_data (both live in memory),
\* the tables as the file holds them.
InitStore ==
    /\ conv = [op \in Operators |-> END]
    /\ user_data = [op \in Operators |-> EmptyDict]
    /\ \E n \in 0..MaxStoredPatients : \E owner \in [1..n -> Operators] :
          /\ Cardinality({i \in 1..n : owner[i] # 1}) <= MaxOtherPatients
          /\ patients = StoredPatients(n, owner)
          /\ now = n + 1
    /\ prescriptions = <<>>
    /\ sent = [to |-> 0, what |-> "NONE"]
    /\ keyboard = [op \in Operators |-> <<>>]
    /\ parse_text = <<>>
    /\ parse_result = NoResult

NextStore ==
    \/ \E op \in Operators : OnCreatePrescription(op, SmallInputs)
    \/ \E op \in Operators : OnCancelCommand(op, SmallInputs)

SpecStore == InitStore /\ [][NextStore]_vars
(***************************************************************************)
(* Properties.                                                             *)
(***************************************************************************)

\* The operator's user_data holds no medication list, or an empty one.
HoldsNoMedications(op) ==
    \/ "medications" \notin DOMAIN user_data[op]
    \/ user_data[op]["medications"] = <<>>

\* The step is the operator's message t handled in state CONFIRM_PRESCRIPTION.
ReviewTurn(op, t) == conv[op] = CONFIRM_PRESCRIPTION /\ save_prescription(op, t)

\* C1: a prescription is never persisted unless the medication list in progress
\* is non-empty: every stored prescription has at least one medication entry,
\* and a 'Confirm & Save' turn of an operator whose user_data holds no
\* medication list, or an empty one, adds no prescription.
C1_NoPrescriptionWithoutMedications ==
    /\ [](\A i \in 1..Len(prescriptions) :
            Len(JsonLoads(prescriptions[i].medications)) >= 1)
    /\ [][\A op \in Operators :
            (ReviewTurn(op, BTN_CONFIRM_SAVE) /\ HoldsNoMedications(op))
                => prescriptions' = prescriptions]_vars

\* C1: 'Confirm & Save' was sent with no medication list in user_data, and
\* nothing was stored.
C1_Witness ==
    /\ sent = [to |-> 1, what |-> "ERROR_KeyError"]
    /\ conv[1] = CONFIRM_PRESCRIPTION
    /\ HoldsNoMedications(1)
    /\ prescriptions = <<>>

\* The operator has registered a patient, started a prescription, selected
\* that patient and entered a diagnosis: the bot has just asked for the
\* prescription body.
AwaitsPrescriptionBody(op) ==
    /\ conv[op] = CONFIRM_PRESCRIPTION
    /\ sent = [to |-> op, what |-> "PRESCRIPTION_FORMAT"]
    /\ "current_patient_id" \in DOMAIN user_data[op]
    /\ user_data[op]["selected_patient_id"] = user_data[op]["current_patient_id"]

\* The operator is in review of four parsed medications.
InReviewOfFour(op) ==
    /\ conv[op] = CONFIRM_PRESCRIPTION
    /\ "medications" \in DOMAIN user_data[op]
    /\ Len(user_data[op]["medications"]) = 4

\* C2: end to end. After registering a patient, starting a prescription,
\* selecting that patient and entering a diagnosis, the body 'h.pylori' puts the
\* session in review of 4 parsed medications; 'Confirm & Save' then ends the
\* session in IDLE with exactly one new prescription, which references the
\* selected patient, carries the diagnosis, has 4 medication entries and has
\* admission date = discharge date.
C2_EndToEnd ==
    [][\A op \in Operators :
        /\ (AwaitsPrescriptionBody(op) /\ ReviewTurn(op, TXT_HPYLORI))
              => InReviewOfFour(op)'
        /\ (InReviewOfFour(op) /\ ReviewTurn(op, BTN_CONFIRM_SAVE))
              => /\ conv'[op] = END
                 /\ Len(prescriptions') = Len(prescriptions) + 1
                 /\ LET rx == prescriptions'[Len(prescriptions')]
                    IN  /\ rx.patient_id = user_data[op]["selected_patient_id"]
                        /\ rx.diagnosis = user_data[op]["diagnosis"]
                        /\ Len(JsonLoads(rx.medications)) = 4
                        /\ rx.admission_date = rx.discharge_date]_vars

\* The patient a prescription row references, if any.
OwnerOfPatient(pid) == {patients[i].telegram_user_id : i \in PatientById(pid)}

\* C3: every persisted prescription references a patient that exists in the
\* store and belongs to the operator who confirmed the prescription, whatever
\* the operator sent at the patient selection.
C3_PrescriptionReferencesOwnPatient ==
    /\ [](\A i \in 1..Len(prescriptions) :
            PatientById(prescriptions[i].patient_id) # {})
    /\ [][\A op \in Operators :
            (ReviewTurn(op, BTN_CONFIRM_SAVE) /\ Len(prescriptions') > Len(prescriptions))
                => OwnerOfPatient(prescriptions'[Len(prescriptions')].patient_id) = {op}]_vars

\* C3: operator 2 selected patient 1, who belongs to operator 1, entered a
\* diagnosis and sent 'Confirm & Save'.
C3_Witness ==
    /\ sent = [to |-> 2, what |-> "ERROR_KeyError"]
    /\ conv[2] = CONFIRM_PRESCRIPTION
    /\ user_data[2]["selected_patient_id"] = 1
    /\ OwnerOfPatient(1) = {1}
    /\ \A i \in 1..Len(prescriptions) : OwnerOfPatient(prescriptions[i].patient_id) # {1}

\* C4: a global cancel in any state but IDLE returns the operator's session to
\* IDLE and clears its user_data entirely.
C4_CancelClearsContext ==
    [][\A op \in Operators :
        (conv[op] # END /\ cancel(op))
            => (conv'[op] = END /\ user_data'[op] = EmptyDict)]_vars

\* C5: in the state reached after the diagnosis, the operator's text goes
\* through the medication parser: with no entry parsed the session stays in
\* that state, user_data and the store unchanged; with at least one entry the
\* parsed list is stored in user_data and the session is in review.
C5_MedicationCollection ==
    [][\A op \in Operators : \A t \in RichInputs.reviews :
        (AwaitsPrescriptionBody(op) /\ ReviewTurn(op, t))
            => IF ParseMedications(t) = <<>>
               THEN /\ conv'[op] = CONFIRM_PRESCRIPTION
                    /\ UNCHANGED <<user_data, patients, prescriptions>>
               ELSE /\ conv'[op] = CONFIRM_PRESCRIPTION
                    /\ "medications" \in DOMAIN user_data'[op]
                    /\ user_data'[op]["medications"] = ParseMedications(t)
                    /\ UNCHANGED <<patients, prescriptions>>]_vars

\* A text without its leading whitespace.
RECURSIVE TrimLeft(_)
TrimLeft(s) ==
    IF s # <<>> /\ Head(s) \in WHITESPACE THEN TrimLeft(Tail(s)) ELSE s

\* A text without its trailing whitespace.
RECURSIVE TrimRight(_)
TrimRight(s) ==
    IF s # <<>> /\ s[Len(s)] \in WHITESPACE
    THEN TrimRight(SubSeq(s, 1, Len(s) - 1)) ELSE s

Trimmed(s) == TrimLeft(TrimRight(s))

\* The k-th smallest element of a set of numbers.
Nth(S, k) == CHOOSE x \in S : Cardinality({y \in S : y < x}) = k - 1

\* The positions of character c in text s.
PositionsOf(s, c) == {i \in 1..Len(s) : s[i] = c}

\* The k-th of the pieces that the occurrences of character c cut text s into.
Piece(s, c, k) ==
    LET at    == PositionsOf(s, c)
        first == IF k = 1 THEN 1 ELSE Nth(at, k - 1) + 1
        last  == IF k = Cardinality(at) + 1 THEN Len(s) ELSE Nth(at, k) - 1
    IN  SubSeq(s, first, last)

\* The numbers of the lines of a text that the pipes cut into exactly 4 segments.
FourSegmentLines(s) ==
    {k \in 1..(Cardinality(PositionsOf(s, "\n")) + 1) :
        Cardinality(PositionsOf(Piece(s, "\n", k), "|")) = 3}

\* The medication entry of a line of 4 segments.
EntryOfLine(line) ==
    [name |-> Trimmed(Piece(line, "|", 1)), dosage |-> Trimmed(Piece(line, "|", 2)),
     quantity |-> Trimmed(Piece(line, "|", 3)),
     instructions |-> Trimmed(Piece(line, "|", 4))]

\* The text is the template keyword, letter casing and surrounding whitespace
\* aside.
NamesTemplate(s) == PyLower(Trimmed(s)) = HPYLORI_KEYWORD

\* C6: for every text that is not the template keyword, the parser yields
\* exactly one entry per line that '|' cuts into exactly 4 segments, in line
\* order, its fields the 4 segments with the surrounding whitespace trimmed;
\* every other line is dropped and changes no other line's entry.
C6_OneEntryPerFourSegmentLine ==
    (parse_result.done /\ ~NamesTemplate(parse_text)) =>
        /\ Len(parse_result.medications) = Cardinality(FourSegmentLines(parse_text))
        /\ \A j \in 1..Len(parse_result.medications) :
              parse_result.medications[j] =
                  EntryOfLine(Piece(parse_text, "\n", Nth(FourSegmentLines(parse_text), j)))
        /\ parse_result.ok = (FourSegmentLines(parse_text) # {})

\* C6: a text of five lines, two of them of 4 segments, was parsed into the
\* two entries of these lines.
C6_Witness ==
    /\ parse_result.done
    /\ Cardinality(PositionsOf(parse_text, "\n")) = 4
    /\ Len(parse_result.medications) = 2
    /\ parse_result.medications[1].name = <<"A">>
    /\ parse_result.medications[2].instructions = <<"H">>

\* C7: the keyword 'h.pylori', in any letter casing and with any whitespace
\* around it, parses to the fixed 4-entry template (Doxycycline 100mg,
\* Metronidazole 500mg, Esomeprazole 40mg, Bismuth 525mg, in this order) and
\* is never an invalid prescription.
C7_KeywordYieldsTemplate ==
    (parse_result.done /\ NamesTemplate(parse_text)) =>
        /\ parse_result.ok
        /\ parse_result.medications = TemplateMedications
        /\ [i \in 1..Len(parse_result.medications) |-> parse_result.medications[i].name]
              = <<TEMPLATE_1_NAME, TEMPLATE_2_NAME, TEMPLATE_3_NAME, TEMPLATE_4_NAME>>

\* Age messages and what int() makes of each.
AgeCases ==
    {[text |-> TXT_34, int |-> TRUE, val |-> 34],
     [text |-> TXT_0, int |-> TRUE, val |-> 0],
     [text |-> TXT_MINUS_1, int |-> TRUE, val |-> -1],
     [text |-> TXT_ABC, int |-> FALSE, val |-> 0],
     [text |-> TXT_3_4, int |-> FALSE, val |-> 0]}

\* C8: in state PATIENT_AGE a text that is no integer leaves user_data as it
\* is and keeps the state; a text that is an integer n, zero and negative
\* values included, stores n as the age and moves to PATIENT_PHONE.
C8_AgeInput ==
    [][\A op \in Operators : \A c \in AgeCases :
        (conv[op] = PATIENT_AGE /\ patient_age(op, c.text))
            => IF c.int
               THEN /\ conv'[op] = PATIENT_PHONE
                    /\ user_data'[op]["patient_age"] = c.val
               ELSE /\ conv'[op] = PATIENT_AGE
                    /\ user_data' = user_data]_vars

\* C8: an age that is no integer has just been refused, in a session that
\* stored the age -1 before.
C8_Witness ==
    /\ sent = [to |-> 1, what |-> "INVALID_AGE"]
    /\ conv[1] = PATIENT_AGE
    /\ "patient_age" \in DOMAIN user_data[1]
    /\ user_data[1]["patient_age"] = -1

\* The text after the first 'ID: ' marker of a text that has one.
AfterMarker(t) == SubSeq(t, PyFind(t, ID_MARKER) + Len(ID_MARKER), Len(t))

\* C9: in the patient selection a text with the marker 'ID: ' followed by an
\* integer n selects patient n and moves on to the diagnosis; a text without
\* the marker, or whose remainder after the marker is no integer, leaves the
\* state and user_data as they are; the cancel choice ends in IDLE.
C9_PatientSelection ==
    [][\A op \in Operators : \A t \in RichInputs.choices \cup Range(keyboard[op]) :
        (conv[op] = PATIENT_DIAGNOSIS /\ patient_diagnosis(op, t))
            => IF t = BTN_SELECT_CANCEL THEN conv'[op] = END
               ELSE IF PyContains(t, ID_MARKER) /\ PyInt(AfterMarker(t)).ok
               THEN /\ conv'[op] = PRESCRIPTION_INPUT
                    /\ user_data'[op]["selected_patient_id"] = PyInt(AfterMarker(t)).val
               ELSE /\ conv'[op] = PATIENT_DIAGNOSIS
                    /\ user_data' = user_data]_vars

\* C10: right after a patient of an operator is inserted, the patient query of
\* create_prescription_start returns at most 10 patients, the new one first,
\* however many patients were stored and also when several share a timestamp.
C10_NewPatientFirst ==
    [][\A op \in Operators :
        (/\ sent = [to |-> op, what |-> "PATIENT_ADDED"]
         /\ conv[op] = END
         /\ create_prescription_start(op))
            => /\ Len(keyboard'[op]) >= 1
               /\ Len(keyboard'[op]) <= RecentPatientsLimit
               /\ keyboard'[op][1] = PatientLabel(patients[Len(patients)])]_vars


\* C11: a prescription is added to the store only by a turn handled in state
\* CONFIRM_PRESCRIPTION whose text is exactly 'Confirm & Save'; every other
\* input in every state leaves the stored prescriptions as they are, and no
\* step ever changes or removes a stored prescription.
C11_InsertOnlyByConfirm ==
    [][/\ prescriptions' # prescriptions
          => \E op \in Operators : ReviewTurn(op, BTN_CONFIRM_SAVE)
       /\ Len(prescriptions') >= Len(prescriptions)
       /\ SubSeq(prescriptions', 1, Len(prescriptions)) = prescriptions]_vars

\* C11: a prescription with a patient and a diagnosis was cancelled in the
\* review state, and nothing was stored.
C11_Witness ==
    /\ sent = [to |-> 1, what |-> "CANCELLED"]
    /\ conv[1] = END
    /\ {"selected_patient_id", "diagnosis"} \subseteq DOMAIN user_data[1]
    /\ prescriptions = <<>>

\* C12: under any interleaving of the messages of two operators, handling a
\* message of one operator leaves the conversation state and the user_data of
\* the other operator as they are: a step changes them only for the operator
\* whose message it answers.
C12_OperatorIsolation ==
    [][\A b \in Operators :
        (conv'[b] # conv[b] \/ user_data'[b] # user_data[b]) => sent'.to = b]_vars

\* C12: operator 1 has just given a patient's name while operator 2 is in the
\* middle of a prescription with its own context.
C12_Witness ==
    /\ sent = [to |-> 1, what |-> "ASK_AGE"]
    /\ conv[1] = PATIENT_AGE
    /\ conv[2] = CONFIRM_PRESCRIPTION
    /\ "diagnosis" \in DOMAIN user_data[2]
    /\ "diagnosis" \notin DOMAIN user_data[1]
    /\ "patient_name" \in DOMAIN user_data[1]
    /\ "current_patient_id" \notin DOMAIN user_data[1]
    /\ "current_patient_id" \in DOMAIN user_data[2]

\* The search prompt is the latest reply, shown to the operator in IDLE.
SearchPromptShown(op) ==
    sent = [to |-> op, what |-> "SEARCH_PROMPT"] /\ conv[op] = END

\* C13: once the search prompt has been shown to an operator in IDLE, the
\* operator's next text message, a menu label included, is taken as a search
\* term and answered by the patient search over the operator's own patients.
C13_SearchTakesNextText ==
    [][\A op \in Operators :
        (/\ SearchPromptShown(op)
         /\ \/ OnButton(op, RichInputs)
            \/ OnAddPatient(op, RichInputs)
            \/ OnCreatePrescription(op, RichInputs))
            => \E t \in RichInputs.buttons \cup RichInputs.adds \cup RichInputs.creates :
                  handle_search(op, t)]_vars

\* C14: when a sub-flow ends with success (the patient stored at the phone
\* step, or the prescription stored at 'Confirm & Save'), the operator's
\* user_data is reset to empty on the return to IDLE, so an operator in IDLE
\* after a finished sub-flow holds no diagnosis and no medication list.
C14_ContextResetOnSuccess ==
    /\ [][\A op \in Operators :
            (/\ conv'[op] = END
             /\ sent' = [to |-> op, what |-> "PATIENT_ADDED"] \/
                sent' = [to |-> op, what |-> "PRESCRIPTION_SAVED"]
             /\ \/ conv[op] = PATIENT_PHONE /\ patients' # patients
                \/ conv[op] = CONFIRM_PRESCRIPTION /\ prescriptions' # prescriptions)
                => user_data'[op] = EmptyDict]_vars
    /\ [](\A op \in Operators :
            (conv[op] = END /\ sent = [to |-> op, what |-> "PATIENT_ADDED"])
                => {"diagnosis", "medications"} \cap DOMAIN user_data[op] = {})

\* The bot has just asked the operator for a corrected prescription, after
\* 'Edit' in state CONFIRM_PRESCRIPTION.
EditAsked(op) ==
    sent = [to |-> op, what |-> "ASK_CORRECTED_PRESCRIPTION"]
        /\ conv[op] = CONFIRM_PRESCRIPTION

\* C15: in review, 'Edit' keeps the session in the prescription sub-flow,
\* writes nothing to the store and leaves the selected patient and the
\* diagnosis in user_data as they are; a valid replacement text sent afterwards
\* is parsed and becomes the session's medication list, still in review, so
\* that a following 'Confirm & Save' stores the replacement list.
C15_EditThenReplace ==
    [][\A op \in Operators :
        /\ ReviewTurn(op, BTN_EDIT)
              => /\ conv'[op] = CONFIRM_PRESCRIPTION
                 /\ patients' = patients /\ prescriptions' = prescriptions
                 /\ user_data' = user_data
        /\ (EditAsked(op) /\ ReviewTurn(op, TXT_RX_LINE))
              => /\ conv'[op] = CONFIRM_PRESCRIPTION
                 /\ "medications" \in DOMAIN user_data'[op]
                 /\ user_data'[op]["medications"] = ParseMedications(TXT_RX_LINE)]_vars

\* C16: starting a prescription for an operator who owns no patient leaves the
\* session in IDLE and the store as it is; otherwise the session enters the
\* patient selection, and the choices offered are at most 10 patients, each
\* of them owned by that operator.
C16_StartPrescription ==
    [][\A op \in Operators :
        (conv[op] = END /\ create_prescription_start(op))
            => IF PatientsOf(op) = {}
               THEN /\ conv'[op] = END
                    /\ patients' = patients /\ prescriptions' = prescriptions
               ELSE /\ conv'[op] = PATIENT_DIAGNOSIS
                    /\ Len(keyboard'[op]) >= 1
                    /\ Len(keyboard'[op]) <= RecentPatientsLimit
                    /\ \A i \in 1..Len(keyboard'[op]) :
                          \E p \in PatientsOf(op) :
                              keyboard'[op][i] = PatientLabel(patients[p])]_vars

\* C16: an operator who owns 11 of the stored patients is offered 10 of them,
\* while the other operator owns a patient too.
C16_Witness ==
    /\ sent = [to |-> 1, what |-> "SELECT_PATIENT"]
    /\ conv[1] = PATIENT_DIAGNOSIS
    /\ Cardinality(PatientsOf(1)) = RecentPatientsLimit + 1
    /\ Len(keyboard[1]) = RecentPatientsLimit
    /\ PatientsOf(2) # {}

\* The menu selections that only read.
ReadOnlyMenu ==
    {BTN_VIEW_PATIENTS, BTN_VIEW_PRESCRIPTIONS, BTN_SEARCH_PATIENT, BTN_STATISTICS}

\* C17: from IDLE, View Patients, View Prescriptions, Search Patient and
\* Statistics leave the operator's conversation state, the user_data and the
\* tables as they are; only Add New Patient and Create Prescription take the
\* session out of IDLE.
C17_ReadOnlyMenu ==
    [][\A op \in Operators :
        /\ \A t \in ReadOnlyMenu :
              (conv[op] = END /\ button_handler(op, t))
                  => /\ conv' = conv
                     /\ user_data' = user_data
                     /\ patients' = patients
                     /\ prescriptions' = prescriptions
        /\ (conv[op] = END /\ conv'[op] # END)
              => \/ OnAddPatient(op, RichInputs)
                 \/ OnCreatePrescription(op, RichInputs)]_vars

\* C17: the search prompt was shown in IDLE to an operator who has a stored
\* patient and a diagnosis left in user_data.
C17_Witness ==
    /\ SearchPromptShown(1)
    /\ PatientsOf(1) # {}
    /\ "diagnosis" \in DOMAIN user_data[1]

\* C18: in state PATIENT_NAME a message of whitespace only is refused: the
\* state and the user_data stay as they are, and so no patient with an empty
\* or all-whitespace name is ever stored.
C18_BlankNameRefused ==
    /\ [][\A op \in Operators :
            (conv[op] = PATIENT_NAME /\ patient_name(op, TXT_BLANK))
                => conv'[op] = PATIENT_NAME /\ user_data' = user_data]_vars
    /\ [](\A i \in 1..Len(patients) : PyStrip(patients[i].name) # <<>>)

\* The reply is to the operator and tells of an exception raised by a store
\* operation of the turn, or before it.
StoreFailureReply(op, r) ==
    r.to = op /\ r.what \in {"ERROR_OperationalError", "ERROR_KeyError"}

\* C19: a turn whose store operation fails (the patient insert of the phone
\* step, the prescription insert of 'Confirm & Save') leaves the operator's
\* conversation state as it was and adds no record, so the same input sent
\* again in the same state is handled as a fresh attempt.
C19_StoreFailureKeepsState ==
    [][\A op \in Operators :
        (/\ conv[op] \in {PATIENT_PHONE, CONFIRM_PRESCRIPTION}
         /\ StoreFailureReply(op, sent'))
            => /\ conv' = conv
               /\ patients' = patients
               /\ prescriptions' = prescriptions]_vars

\* C19: the insert of a second patient has just failed at the phone step, and
\* the session is still at the phone step.
C19_Witness ==
    /\ StoreFailureReply(1, sent)
    /\ conv[1] = PATIENT_PHONE
    /\ Len(patients) = 1
    /\ "current_patient_id" \in DOMAIN user_data[1]

\* The value of a key of the operator's user_data is the same after the step.
Keeps(op, key) ==
    /\ key \in DOMAIN user_data[op]
    /\ key \in DOMAIN user_data'[op]
    /\ user_data'[op][key] = user_data[op][key]

\* The name and the age a registration holds at its phone step are those
\* given in the same run: the age step is entered only by patient_name, the
\* phone step only by patient_age, and neither value changes on the way.
CollectedInThisRun(op) ==
    /\ (conv[op] # PATIENT_AGE /\ conv'[op] = PATIENT_AGE)
          => conv[op] = PATIENT_NAME /\ \E t \in SmallInputs.names : patient_name(op, t)
    /\ (conv[op] # PATIENT_PHONE /\ conv'[op] = PATIENT_PHONE)
          => conv[op] = PATIENT_AGE /\ \E t \in SmallInputs.ages : patient_age(op, t)
    /\ (conv[op] = PATIENT_AGE /\ conv'[op] \in {PATIENT_AGE, PATIENT_PHONE})
          => Keeps(op, "patient_name")
    /\ (conv[op] = PATIENT_PHONE /\ conv'[op] = PATIENT_PHONE)
          => Keeps(op, "patient_name") /\ Keeps(op, "patient_age")

SearchTerms == {TXT_BO, TXT_555, TXT_HELLO, <<"%">>}

\* All that the read-only queries return to an operator: the lists of View
\* Patients and View Prescriptions, the counts of Statistics, and the matches
\* of the patient search for each term.
ReadView(op) ==
    [patients |-> ViewPatientsRows(op),
     prescriptions |-> ViewPrescriptionsRows(op),
     statistics |-> StatisticsCounts(op),
     search |-> [t \in SearchTerms |-> {patients[i] : i \in SearchResults(op, t)}]]

\* The step handles a message of the operator.
TurnOf(op) == sent'.to = op /\ now' = now

EnteredInThisRun(op) ==
    /\ (conv[op] # PRESCRIPTION_INPUT /\ conv'[op] = PRESCRIPTION_INPUT)
          => /\ conv[op] = PATIENT_DIAGNOSIS
             /\ \E t \in RichInputs.choices \cup Range(keyboard[op]) :
                   patient_diagnosis(op, t)
    /\ (conv[op] # CONFIRM_PRESCRIPTION /\ conv'[op] = CONFIRM_PRESCRIPTION)
          => /\ conv[op] = PRESCRIPTION_INPUT
             /\ \E t \in RichInputs.diagnoses : prescription_input(op, t)
             /\ Keeps(op, "selected_patient_id")
             /\ "medications" \notin DOMAIN user_data'[op]
    /\ (conv[op] = PRESCRIPTION_INPUT /\ conv'[op] = PRESCRIPTION_INPUT)
          => Keeps(op, "selected_patient_id")
    /\ (conv[op] = CONFIRM_PRESCRIPTION /\ conv'[op] = CONFIRM_PRESCRIPTION)
          => Keeps(op, "selected_patient_id") /\ Keeps(op, "diagnosis")

\* C22: the patient reference, the diagnosis and the medication list of every
\* stored prescription were entered by the operator in the run of the
\* prescription sub-flow that ended with its 'Confirm & Save'; no value left
\* in user_data by an earlier run, completed or cancelled, is written into a
\* prescription.
C22_FreshPrescription ==
    [][/\ prescriptions' # prescriptions
          => /\ Len(prescriptions') = Len(prescriptions) + 1
             /\ \E op \in Operators :
                   LET rx == prescriptions'[Len(prescriptions')]
                   IN  /\ ReviewTurn(op, BTN_CONFIRM_SAVE)
                       /\ rx.patient_id = user_data[op]["selected_patient_id"]
                       /\ rx.diagnosis = user_data[op]["diagnosis"]
                       /\ "medications" \in DOMAIN user_data[op]
                       /\ JsonLoads(rx.medications) = user_data[op]["medications"]
       /\ \A op \in Operators : EnteredInThisRun(op)]_vars

\* C22: 'Confirm & Save' was sent in a run that chose the first patient while
\* user_data still holds the id of the second, registered last, and nothing
\* was stored.
C22_Witness ==
    /\ sent = [to |-> 1, what |-> "ERROR_KeyError"]
    /\ conv[1] = CONFIRM_PRESCRIPTION
    /\ {"selected_patient_id", "diagnosis", "current_patient_id"} \subseteq DOMAIN user_data[1]
    /\ user_data[1]["selected_patient_id"] = 1
    /\ user_data[1]["current_patient_id"] = 2
    /\ prescriptions = <<>>
=============================================================================
